---- MODULE Spec2Model ----
(***************************************************************************)
(* USB mode store and HTTP API of UDX710-webui (usb_mode.c, usb_mode.h).   *)
(*                                                                         *)
(* The state is the two configuration files /mnt/data/mode_tmp.cfg and     *)
(* /mnt/data/mode.cfg together with a record of the operation that ran     *)
(* last (its arguments, its return value, its HTTP response and the        *)
(* outcome of the system calls it made).  A file is a record               *)
(* [exists, data]; data is the sequence of characters it holds.            *)
(*                                                                         *)
(* Spec, SpecNoTmp and SpecHttp run the operations one after the other.    *)
(* SpecSetRace and SpecGetRace run usb_mode_set and usb_mode_get one       *)
(* system call at a time (variables setter, reader, orphan, tmp0, cfg0).   *)
(* SpecUi runs handleSwitch of the USB mode page (variables loading, inv). *)
(***************************************************************************)
EXTENDS Integers, Sequences, FiniteSets, TLC

VARIABLES tmp, cfg, op, mode, permanent, body, ret, resp, fault, lastOkSet,
          setter, reader, orphan, tmp0, cfg0, loading, inv

\* the record of the operation that ran last
opvars == <<op, mode, permanent, body, ret, resp, fault, lastOkSet>>

\* the calls in progress, one system call at a time
racevars == <<setter, reader, orphan, tmp0, cfg0>>

\* the USB mode page
uivars == <<loading, inv>>

vars == <<tmp, cfg, opvars, racevars, uivars>>

(***************************************************************************)
(* Program constants.                                                      *)
(***************************************************************************)
USB_MODE_CDC_NCM == 1
USB_MODE_CDC_ECM == 2
USB_MODE_RNDIS == 3

(***************************************************************************)
(* Bounds of the model.                                                    *)
(***************************************************************************)
\* The files may hold, before the first operation, every content of at most
\* MaxLen characters over FileChars (digits, a sign, a letter)
\* and the longer contents of MoreContents (a value outside the enum, a
\* negative value, leading white space, trailing text, two digits).
MaxLen == 1
FileChars == {"0", "1", "2", "-", "x"}
MoreContents == {<<"7">>, <<"-", "1">>, <<" ", "2">>, <<"3", "x">>, <<"1", "2">>}
\* integer arguments of direct usb_mode_set calls
SetModeArgs == (USB_MODE_CDC_NCM - 1) .. (USB_MODE_RNDIS + 1)
\* the permanent argument of direct usb_mode_set calls
PermanentArgs == {0, 1}
\* values of $.mode in a request body ("" is the empty string)
ModeStrings == {"", "cdc_ncm", "cdc_ecm", "rndis", "bogus", "RNDIS"}

(***************************************************************************)
(* Files.                                                                  *)
(***************************************************************************)
NoFile == [exists |-> FALSE, data |-> <<>>]

File(s) == [exists |-> TRUE, data |-> s]

Contents == UNION {[1..n -> FileChars] : n \in 0..MaxLen} \cup MoreContents

Files == {NoFile} \cup {File(s) : s \in Contents}

(***************************************************************************)
(* fscanf(f, "%d", &mode) and fprintf(f, "%d", mode).                      *)
(***************************************************************************)
DigitChars == <<"0", "1", "2", "3", "4", "5", "6", "7", "8", "9">>

IsDigit(ch) == \E d \in 1..10 : DigitChars[d] = ch

DigitVal(ch) == (CHOOSE d \in 1..10 : DigitChars[d] = ch) - 1

IsSpace(ch) == ch \in {" ", "\n", "\t"}

RECURSIVE SkipSpace(_, _)
SkipSpace(s, i) ==
    IF i <= Len(s) /\ IsSpace(s[i]) THEN SkipSpace(s, i + 1) ELSE i

RECURSIVE ScanDigits(_, _, _)
ScanDigits(s, i, acc) ==
    IF i <= Len(s) /\ IsDigit(s[i])
    THEN ScanDigits(s, i + 1, acc * 10 + DigitVal(s[i]))
    ELSE acc

\* the result of fscanf(f, "%d", &v) on content s: n is the return value
\* (1 conversion, 0 on a matching failure, -1 = EOF on an input failure)
\* and val the converted integer when n = 1
fscanf_d(s) ==
    LET i == SkipSpace(s, 1)
        signed == i <= Len(s) /\ s[i] \in {"-", "+"}
        j == IF signed THEN i + 1 ELSE i
        mag == ScanDigits(s, j, 0)
    IN  IF j <= Len(s) /\ IsDigit(s[j])
        THEN [n |-> 1, val |-> IF signed /\ s[i] = "-" THEN 0 - mag ELSE mag]
        ELSE [n |-> IF i > Len(s) THEN -1 ELSE 0, val |-> 0]

RECURSIVE Digits(_)
Digits(n) ==
    IF n < 10 THEN <<DigitChars[n + 1]>>
    ELSE Digits(n \div 10) \o <<DigitChars[(n % 10) + 1]>>

\* the characters fprintf(f, "%d", n) produces
fprintf_d(n) == IF n < 0 THEN <<"-">> \o Digits(0 - n) ELSE Digits(n)

(***************************************************************************)
(* Mode Store.                                                             *)
(***************************************************************************)
usb_mode_name(m) ==
    CASE m = USB_MODE_CDC_NCM -> "cdc_ncm"
      [] m = USB_MODE_CDC_ECM -> "cdc_ecm"
      [] m = USB_MODE_RNDIS -> "rndis"
      [] OTHER -> "unknown"

\* usb_mode_from_name comparing without regard to case
usb_mode_from_name_nocase(name) ==
    IF name \in {"cdc_ncm", "CDC_NCM"} THEN USB_MODE_CDC_NCM
    ELSE IF name \in {"cdc_ecm", "CDC_ECM"} THEN USB_MODE_CDC_ECM
    ELSE IF name \in {"rndis", "RNDIS"} THEN USB_MODE_RNDIS
    ELSE -1

usb_mode_from_name(name) ==
    IF name = "cdc_ncm" THEN USB_MODE_CDC_NCM
    ELSE IF name = "cdc_ecm" THEN USB_MODE_CDC_ECM
    ELSE IF name = "rndis" THEN USB_MODE_RNDIS
    ELSE -1

\* read_mode_from_file returning 0 when the file cannot be opened
read_mode_from_file_zero(f) ==
    IF ~f.exists THEN 0
    ELSE LET r == fscanf_d(f.data)
         IN  IF r.n # 1 THEN -1 ELSE r.val

read_mode_from_file(f) ==
    IF ~f.exists THEN -1
    ELSE LET r == fscanf_d(f.data)
         IN  IF r.n # 1 THEN -1 ELSE r.val

\* The outcome of the system calls of one usb_mode_set, chosen by the
\* environment: open = fopen(path, "w") returns a stream; written = the
\* number of characters that reach the file before fprintf/fclose stop
\* (all of them unless the device is full or fails); unlinked = unlink
\* removes an existing temporary file.
IoOk == [open |-> TRUE, written |-> -1, unlinked |-> TRUE]

\* write_mode_to_file that closes the stream without the fprintf
write_mode_to_file_empty(f, m, io) ==
    IF ~io.open THEN [ret |-> -1, file |-> f]
    ELSE [ret |-> 0, file |-> File(<<>>)]

\* fopen(path, "w") truncates the file as soon as it succeeds; the results
\* of fprintf and fclose are not looked at, so the function returns 0 once
\* the stream is open.
write_mode_to_file(f, m, io) ==
    IF ~io.open THEN [ret |-> -1, file |-> f]
    ELSE LET text == fprintf_d(m)
             k == IF io.written < 0 THEN Len(text) ELSE io.written
         IN  [ret |-> 0, file |-> File(SubSeq(text, 1, k))]

unlink(f, io) == IF f.exists /\ io.unlinked THEN NoFile ELSE f

\* usb_mode_get with the guard mode >= 0 in place of mode > 0
usb_mode_get_ge0(t, c) ==
    LET m == read_mode_from_file(t)
    IN  IF m >= 0 THEN m ELSE read_mode_from_file(c)

usb_mode_get(t, c) ==
    LET m == read_mode_from_file(t)
    IN  IF m > 0 THEN m ELSE read_mode_from_file(c)

\* usb_mode_set whose non-permanent branch writes the permanent file too
usb_mode_set_both(t, c, m, perm, io) ==
    IF m < USB_MODE_CDC_NCM \/ m > USB_MODE_RNDIS
    THEN [ret |-> -1, tmp |-> t, cfg |-> c]
    ELSE IF perm # 0
    THEN LET w == write_mode_to_file(c, m, io)
         IN  IF w.ret # 0 THEN [ret |-> -1, tmp |-> t, cfg |-> c]
             ELSE [ret |-> 0, tmp |-> unlink(t, io), cfg |-> w.file]
    ELSE LET w == write_mode_to_file(t, m, io)
         IN  IF w.ret # 0 THEN [ret |-> -1, tmp |-> t, cfg |-> c]
             ELSE [ret |-> 0, tmp |-> w.file, cfg |-> w.file]

\* usb_mode_set whose permanent branch does not call unlink
usb_mode_set_keep_tmp(t, c, m, perm, io) ==
    IF m < USB_MODE_CDC_NCM \/ m > USB_MODE_RNDIS
    THEN [ret |-> -1, tmp |-> t, cfg |-> c]
    ELSE IF perm # 0
    THEN LET w == write_mode_to_file(c, m, io)
         IN  IF w.ret # 0 THEN [ret |-> -1, tmp |-> t, cfg |-> c]
             ELSE [ret |-> 0, tmp |-> t, cfg |-> w.file]
    ELSE LET w == write_mode_to_file(t, m, io)
         IN  IF w.ret # 0 THEN [ret |-> -1, tmp |-> t, cfg |-> c]
             ELSE [ret |-> 0, tmp |-> w.file, cfg |-> c]

\* usb_mode_set whose permanent branch calls unlink before the write
usb_mode_set_unlink_first(t, c, m, perm, io) ==
    IF m < USB_MODE_CDC_NCM \/ m > USB_MODE_RNDIS
    THEN [ret |-> -1, tmp |-> t, cfg |-> c]
    ELSE IF perm # 0
    THEN LET w == write_mode_to_file(c, m, io)
         IN  IF w.ret # 0 THEN [ret |-> -1, tmp |-> unlink(t, io), cfg |-> c]
             ELSE [ret |-> 0, tmp |-> unlink(t, io), cfg |-> w.file]
    ELSE LET w == write_mode_to_file(t, m, io)
         IN  IF w.ret # 0 THEN [ret |-> -1, tmp |-> t, cfg |-> c]
             ELSE [ret |-> 0, tmp |-> w.file, cfg |-> c]

usb_mode_set(t, c, m, perm, io) ==
    IF m < USB_MODE_CDC_NCM \/ m > USB_MODE_RNDIS
    THEN [ret |-> -1, tmp |-> t, cfg |-> c]
    ELSE IF perm # 0
    THEN LET w == write_mode_to_file(c, m, io)
         IN  IF w.ret # 0 THEN [ret |-> -1, tmp |-> t, cfg |-> c]
             ELSE [ret |-> 0, tmp |-> unlink(t, io), cfg |-> w.file]
    ELSE LET w == write_mode_to_file(t, m, io)
         IN  IF w.ret # 0 THEN [ret |-> -1, tmp |-> t, cfg |-> c]
             ELSE [ret |-> 0, tmp |-> w.file, cfg |-> c]

\* The outcomes the environment can produce for usb_mode_set(m, perm) when
\* the temporary file is t: only the calls the function reaches can fail.
IoOutcomes(t, m, perm) ==
    IF m < USB_MODE_CDC_NCM \/ m > USB_MODE_RNDIS THEN {IoOk}
    ELSE {io \in [open : BOOLEAN, written : -1 .. (Len(fprintf_d(m)) - 1),
                  unlinked : BOOLEAN] :
            /\ ~io.open => (io.written = -1 /\ io.unlinked)
            /\ ~io.unlinked => (perm # 0 /\ t.exists)}

\* which calls failed, as recorded with the operation
FaultOf(io) ==
    IF ~io.open THEN "open"
    ELSE IF io.written >= 0 /\ ~io.unlinked THEN "write+unlink"
    ELSE IF io.written >= 0 THEN "write"
    ELSE IF ~io.unlinked THEN "unlink"
    ELSE "none"

\* the most recent usb_mode_set that returned 0
OkSetAfter(r, perm, io) ==
    IF r.ret # 0 THEN lastOkSet
    ELSE IF perm = 0 THEN "temp"
    ELSE IF io.unlinked THEN "perm"
    ELSE "perm_unlink_failed"

(***************************************************************************)
(* Mode API.                                                               *)
(***************************************************************************)
NoBody == [has_mode |-> FALSE, mode |-> "", permanent |-> "absent"]

Bodies == [has_mode : {TRUE}, mode : ModeStrings,
           permanent : {"absent", "true", "false"}]
          \cup {[NoBody EXCEPT !.permanent = p] : p \in {"absent", "true"}}

NoResp == [Code |-> -1, Error |-> "", Data |-> [null |-> TRUE]]

\* GetResponse with is_temporary taken from the value that won precedence
GetResponse_valid_tmp(t, c) ==
    LET m == usb_mode_get(t, c)
    IN  [Code |-> 0, Error |-> "",
         Data |-> [mode |-> IF m > 0 THEN usb_mode_name(m) ELSE "unknown",
                   mode_value |-> m,
                   is_temporary |-> read_mode_from_file(t) > 0]]

\* the body of the response of GET /api/usb/mode
GetResponse(t, c) ==
    LET m == usb_mode_get(t, c)
    IN  [Code |-> 0, Error |-> "",
         Data |-> [mode |-> IF m > 0 THEN usb_mode_name(m) ELSE "unknown",
                   mode_value |-> m,
                   is_temporary |-> t.exists]]

\* the parsed parameters of POST /api/usb/mode
mode_str(b) == IF b.has_mode THEN b.mode ELSE ""

permanent_of(b) == IF b.permanent = "true" THEN 1 ELSE 0

Failure(msg) == [Code |-> 1, Error |-> msg, Data |-> [null |-> TRUE]]

(***************************************************************************)
(* Calls in progress: usb_mode_set and usb_mode_get one system call at a   *)
(* time.  A stream refers to the file it was opened on ("tmp", "cfg") or,  *)
(* once that file has been unlinked, to the unlinked file ("orphan").      *)
(***************************************************************************)
Procs == {1, 2}

\* arguments of the calls that race: an invalid mode and two modes
RaceModeArgs == {USB_MODE_CDC_NCM - 1, USB_MODE_CDC_NCM, USB_MODE_CDC_ECM}

IdleSetter ==
    [pc |-> "idle", mode |-> 0, permanent |-> 0, fd |-> "none",
     buf |-> <<>>, ret |-> 0]

IdleReader == [pc |-> "idle", fd |-> "none", ret |-> 0]

\* a call of usb_mode_set(m, perm) about to start
StartSetter(m, perm) ==
    [IdleSetter EXCEPT !.pc = "check", !.mode = m, !.permanent = perm]

\* fopen(path, "w") that leaves the content in place, as mode "r+" would
fopen_w_keep(f) == File(f.data)

\* the file after fopen(path, "w"): created or truncated to length 0
fopen_w(f) == File(<<>>)

\* the content after the stream's buffer is written at offset 0
WriteAt0(data, text) ==
    IF Len(text) >= Len(data) THEN text
    ELSE text \o SubSeq(data, Len(text) + 1, Len(data))

\* where usb_mode_get goes after reading mode from the temporary file,
\* with the guard mode >= 0
after_tmp_ge0(m) == IF m >= 0 THEN "done" ELSE "open_cfg"

\* where usb_mode_get goes after reading mode from the temporary file
after_tmp(m) == IF m > 0 THEN "done" ELSE "open_cfg"

(***************************************************************************)
(* Operations.                                                             *)
(***************************************************************************)
Init ==
    /\ tmp \in Files
    /\ cfg \in Files
    /\ op = "init"
    /\ mode = 0
    /\ permanent = 0
    /\ body = NoBody
    /\ ret = 0
    /\ resp = NoResp
    /\ fault = "none"
    /\ lastOkSet = "none"
    /\ setter = [p \in Procs |-> IdleSetter]
    /\ reader = IdleReader
    /\ orphan = NoFile
    /\ tmp0 = NoFile
    /\ cfg0 = NoFile
    /\ loading = "null"
    /\ inv = <<>>

call_usb_mode_get ==
    /\ op' = "usb_mode_get"
    /\ ret' = usb_mode_get(tmp, cfg)
    /\ mode' = 0
    /\ permanent' = 0
    /\ body' = NoBody
    /\ resp' = NoResp
    /\ fault' = "none"
    /\ UNCHANGED <<tmp, cfg, lastOkSet, racevars, uivars>>

call_usb_mode_set ==
    \E m \in SetModeArgs, perm \in PermanentArgs :
      \E io \in IoOutcomes(tmp, m, perm) :
        LET r == usb_mode_set(tmp, cfg, m, perm, io)
        IN  /\ op' = "usb_mode_set"
            /\ mode' = m
            /\ permanent' = perm
            /\ body' = NoBody
            /\ ret' = r.ret
            /\ resp' = NoResp
            /\ fault' = FaultOf(io)
            /\ tmp' = r.tmp
            /\ cfg' = r.cfg
            /\ lastOkSet' = OkSetAfter(r, perm, io)
            /\ UNCHANGED <<racevars, uivars>>

handle_usb_mode_get ==
    /\ op' = "handle_usb_mode_get"
    /\ resp' = GetResponse(tmp, cfg)
    /\ ret' = 0
    /\ mode' = 0
    /\ permanent' = 0
    /\ body' = NoBody
    /\ fault' = "none"
    /\ UNCHANGED <<tmp, cfg, lastOkSet, racevars, uivars>>

handle_usb_mode_set ==
    \E b \in Bodies :
      LET str == mode_str(b)
          perm == permanent_of(b)
          m == usb_mode_from_name(str)
      IN  /\ op' = "handle_usb_mode_set"
          /\ UNCHANGED <<racevars, uivars>>
          /\ body' = b
          /\ permanent' = perm
          /\ IF str = ""
             THEN /\ resp' = Failure("mode_empty")
                  /\ mode' = 0
                  /\ ret' = 0
                  /\ fault' = "none"
                  /\ UNCHANGED <<tmp, cfg, lastOkSet>>
             ELSE IF m < 0
             THEN /\ resp' = Failure("mode_invalid")
                  /\ mode' = m
                  /\ ret' = 0
                  /\ fault' = "none"
                  /\ UNCHANGED <<tmp, cfg, lastOkSet>>
             ELSE \E io \in IoOutcomes(tmp, m, perm) :
                    LET r == usb_mode_set(tmp, cfg, m, perm, io)
                    IN  /\ mode' = m
                        /\ ret' = r.ret
                        /\ fault' = FaultOf(io)
                        /\ tmp' = r.tmp
                        /\ cfg' = r.cfg
                        /\ lastOkSet' = OkSetAfter(r, perm, io)
                        /\ resp' = IF r.ret # 0 THEN Failure("set_failed")
                                   ELSE [Code |-> 0, Error |-> "",
                                         Data |-> [mode |-> str,
                                                   permanent |-> perm # 0,
                                                   message |-> "ok_reboot"]]

Next ==
    \/ call_usb_mode_get
    \/ call_usb_mode_set
    \/ handle_usb_mode_get
    \/ handle_usb_mode_set

Spec == Init /\ [][Next]_vars

\* GET and POST requests served one after the other on a store that starts
\* empty, on a device where fprintf and fclose do not fail
InitEmpty == Init /\ tmp = NoFile /\ cfg = NoFile

handle_usb_mode_set_written ==
    handle_usb_mode_set /\ fault' \notin {"write", "write+unlink"}

NextHttp ==
    \/ handle_usb_mode_get
    \/ handle_usb_mode_set_written

SpecHttp == InitEmpty /\ [][NextHttp]_vars

\* the same program started on a store without a temporary setting
InitNoTmp == Init /\ tmp = NoFile

SpecNoTmp == InitNoTmp /\ [][Next]_vars

(***************************************************************************)
(* usb_mode_set and usb_mode_get, one system call at a time.  No system    *)
(* call fails here: the steps are those of calls that run to their end.    *)
(***************************************************************************)
InitRace ==
    /\ tmp \in Files
    /\ cfg \in Files
    /\ tmp0 = tmp
    /\ cfg0 = cfg
    /\ orphan = NoFile
    /\ op = "init"
    /\ mode = 0
    /\ permanent = 0
    /\ body = NoBody
    /\ ret = 0
    /\ resp = NoResp
    /\ fault = "none"
    /\ lastOkSet = "none"
    /\ loading = "null"
    /\ inv = <<>>

\* two usb_mode_set calls
InitSetRace ==
    /\ InitRace
    /\ setter \in [Procs -> {StartSetter(m, perm) :
                               m \in RaceModeArgs, perm \in PermanentArgs}]
    /\ reader = IdleReader

\* one usb_mode_set call and one usb_mode_get call
InitGetRace ==
    /\ InitRace
    /\ \E m \in RaceModeArgs, perm \in PermanentArgs :
         setter = [p \in Procs |->
                     IF p = 1 THEN StartSetter(m, perm) ELSE IdleSetter]
    /\ reader = [IdleReader EXCEPT !.pc = "open_tmp"]

\* the file a stream refers to
Inode(fd) ==
    CASE fd = "tmp" -> tmp
      [] fd = "cfg" -> cfg
      [] OTHER -> orphan

\* usb_mode_set: the range check of its mode
set_check(p) ==
    /\ setter[p].pc = "check"
    /\ setter' = [setter EXCEPT ![p] =
          IF @.mode < USB_MODE_CDC_NCM \/ @.mode > USB_MODE_RNDIS
          THEN [@ EXCEPT !.pc = "done", !.ret = -1]
          ELSE [@ EXCEPT !.pc = "fopen"]]
    /\ UNCHANGED <<tmp, cfg, opvars, reader, orphan, tmp0, cfg0, uivars>>

\* write_mode_to_file: fopen(path, "w")
set_fopen(p) ==
    /\ setter[p].pc = "fopen"
    /\ IF setter[p].permanent # 0
       THEN /\ cfg' = fopen_w(cfg)
            /\ tmp' = tmp
            /\ setter' = [setter EXCEPT ![p].pc = "fprintf", ![p].fd = "cfg"]
       ELSE /\ tmp' = fopen_w(tmp)
            /\ cfg' = cfg
            /\ setter' = [setter EXCEPT ![p].pc = "fprintf", ![p].fd = "tmp"]
    /\ UNCHANGED <<opvars, reader, orphan, tmp0, cfg0, uivars>>

\* write_mode_to_file: fprintf(f, "%d", mode) fills the stream's buffer
set_fprintf(p) ==
    /\ setter[p].pc = "fprintf"
    /\ setter' = [setter EXCEPT ![p].pc = "fclose",
                                ![p].buf = fprintf_d(setter[p].mode)]
    /\ UNCHANGED <<tmp, cfg, opvars, reader, orphan, tmp0, cfg0, uivars>>

\* write_mode_to_file: fclose(f) writes the buffer and closes the stream;
\* a non-permanent usb_mode_set then returns 0
set_fclose(p) ==
    /\ setter[p].pc = "fclose"
    /\ LET fd == setter[p].fd
           new == File(WriteAt0(Inode(fd).data, setter[p].buf))
       IN  /\ tmp' = IF fd = "tmp" THEN new ELSE tmp
           /\ cfg' = IF fd = "cfg" THEN new ELSE cfg
           /\ orphan' = IF fd = "orphan" THEN new ELSE orphan
    /\ setter' = [setter EXCEPT ![p] =
          IF @.permanent # 0
          THEN [@ EXCEPT !.pc = "unlink", !.fd = "none", !.buf = <<>>]
          ELSE [@ EXCEPT !.pc = "done", !.fd = "none", !.buf = <<>>,
                         !.ret = 0]]
    /\ UNCHANGED <<opvars, reader, tmp0, cfg0, uivars>>

\* usb_mode_set: unlink(USB_MODE_TMP_CFG_PATH), then return 0; streams open
\* on the file keep the unlinked file
set_unlink(p) ==
    /\ setter[p].pc = "unlink"
    /\ tmp' = NoFile
    /\ orphan' = IF tmp.exists THEN tmp ELSE orphan
    /\ setter' = [q \in Procs |->
          IF q = p THEN [setter[q] EXCEPT !.pc = "done", !.ret = 0]
          ELSE IF setter[q].fd = "tmp" THEN [setter[q] EXCEPT !.fd = "orphan"]
          ELSE setter[q]]
    /\ reader' = IF reader.fd = "tmp" THEN [reader EXCEPT !.fd = "orphan"]
                 ELSE reader
    /\ UNCHANGED <<cfg, opvars, tmp0, cfg0, uivars>>

\* read_mode_from_file(USB_MODE_TMP_CFG_PATH): fopen(path, "r")
get_open_tmp ==
    /\ reader.pc = "open_tmp"
    /\ reader' = IF tmp.exists
                 THEN [reader EXCEPT !.pc = "scan_tmp", !.fd = "tmp"]
                 ELSE [reader EXCEPT !.pc = after_tmp(-1), !.ret = -1]
    /\ UNCHANGED <<tmp, cfg, opvars, setter, orphan, tmp0, cfg0, uivars>>

\* read_mode_from_file(USB_MODE_TMP_CFG_PATH): fscanf, fclose; usb_mode_get
\* returns the mode if it is > 0
get_scan_tmp ==
    /\ reader.pc = "scan_tmp"
    /\ LET m == read_mode_from_file(Inode(reader.fd))
       IN  reader' = [reader EXCEPT !.pc = after_tmp(m), !.fd = "none",
                                    !.ret = m]
    /\ UNCHANGED <<tmp, cfg, opvars, setter, orphan, tmp0, cfg0, uivars>>

\* read_mode_from_file(USB_MODE_CFG_PATH): fopen(path, "r")
get_open_cfg ==
    /\ reader.pc = "open_cfg"
    /\ reader' = IF cfg.exists
                 THEN [reader EXCEPT !.pc = "scan_cfg", !.fd = "cfg"]
                 ELSE [reader EXCEPT !.pc = "done", !.ret = -1]
    /\ UNCHANGED <<tmp, cfg, opvars, setter, orphan, tmp0, cfg0, uivars>>

\* read_mode_from_file(USB_MODE_CFG_PATH): fscanf, fclose; usb_mode_get
\* returns the mode
get_scan_cfg ==
    /\ reader.pc = "scan_cfg"
    /\ reader' = [reader EXCEPT !.pc = "done", !.fd = "none",
                    !.ret = read_mode_from_file(Inode(reader.fd))]
    /\ UNCHANGED <<tmp, cfg, opvars, setter, orphan, tmp0, cfg0, uivars>>

SetStep ==
    \E p \in Procs :
      \/ set_check(p)
      \/ set_fopen(p)
      \/ set_fprintf(p)
      \/ set_fclose(p)
      \/ set_unlink(p)

GetStep ==
    \/ get_open_tmp
    \/ get_scan_tmp
    \/ get_open_cfg
    \/ get_scan_cfg

NextSetRace == SetStep

SpecSetRace == InitSetRace /\ [][NextSetRace]_vars

NextGetRace == SetStep \/ GetStep

SpecGetRace == InitGetRace /\ [][NextGetRace]_vars

(***************************************************************************)
(* The USB mode page: handleSwitch(mode, permanent).  Each invocation is   *)
(* an async function that stops at its awaits; the dialogs (confirm), the  *)
(* set request (setUsbMode) and the reboot request (deviceControl) are     *)
(* answered by the user and the device at any later moment.                *)
(***************************************************************************)
\* invocations of handleSwitch that may be in progress at once
MaxInvocations == 2

Invocations == 1..MaxInvocations

\* the ids of the mode cards whose buttons are clicked
UiModes == {"cdc_ecm", "rndis"}

\* line 55: the key of the button
btnKey(id, perm) == id \o (IF perm THEN "_perm" ELSE "_temp")

IdleInvocation ==
    [pc |-> "idle", id |-> "", permanent |-> FALSE, confirmed |-> "none",
     res |-> "none", reboot |-> "none", rebootRequested |-> FALSE,
     setLoading |-> FALSE]

\* answers of setUsbMode: a response with Code 0, one with another Code,
\* a rejected promise
SetAnswers == {"Code0", "Code1", "throw"}

\* line 56 with the test inverted
guard_pc_inverted(l) == IF l # "null" THEN "confirm" ELSE "end"

\* line 56: if (loading.value) return
guard_pc(l) == IF l # "null" THEN "end" ELSE "confirm"

\* lines 70-84 without the test of res.Code
after_setUsbMode_any(answer) ==
    IF answer \in {"Code0", "Code1"} THEN "confirmReboot" ELSE "end"

\* lines 70-84: res.Code === 0 leads to the reboot dialog, anything else to
\* the catch block
after_setUsbMode(answer) == IF answer = "Code0" THEN "confirmReboot" ELSE "end"

InitUi ==
    /\ tmp = NoFile
    /\ cfg = NoFile
    /\ op = "init"
    /\ mode = 0
    /\ permanent = 0
    /\ body = NoBody
    /\ ret = 0
    /\ resp = NoResp
    /\ fault = "none"
    /\ lastOkSet = "none"
    /\ setter = [p \in Procs |-> IdleSetter]
    /\ reader = IdleReader
    /\ orphan = NoFile
    /\ tmp0 = NoFile
    /\ cfg0 = NoFile
    /\ loading = "null"
    /\ inv = [i \in Invocations |-> IdleInvocation]

\* lines 54-64: a call of handleSwitch runs up to its first await
ui_handleSwitch(i) ==
    /\ inv[i].pc \in {"idle", "end"}
    /\ \E id \in UiModes, perm \in BOOLEAN :
         inv' = [inv EXCEPT ![i] =
                   [IdleInvocation EXCEPT !.pc = guard_pc(loading),
                                          !.id = id, !.permanent = perm]]
    /\ UNCHANGED <<tmp, cfg, opvars, racevars, loading>>

\* lines 64-69: the switch dialog is answered
ui_confirm(i) ==
    /\ inv[i].pc = "confirm"
    /\ \E confirmed \in BOOLEAN :
         IF ~confirmed
         THEN /\ inv' = [inv EXCEPT ![i].pc = "end", ![i].confirmed = "no"]
              /\ loading' = loading
         ELSE /\ inv' = [inv EXCEPT ![i].pc = "setUsbMode",
                                    ![i].confirmed = "yes",
                                    ![i].setLoading = TRUE]
              /\ loading' = btnKey(inv[i].id, inv[i].permanent)
    /\ UNCHANGED <<tmp, cfg, opvars, racevars>>

\* lines 69-74 and 82-88: the set request is answered
ui_setUsbMode(i) ==
    /\ inv[i].pc = "setUsbMode"
    /\ \E answer \in SetAnswers :
         /\ inv' = [inv EXCEPT ![i].pc = after_setUsbMode(answer),
                               ![i].res = answer]
         /\ loading' = IF after_setUsbMode(answer) = "end" THEN "null"
                       ELSE loading
    /\ UNCHANGED <<tmp, cfg, opvars, racevars>>

\* lines 74-79 and 87-88: the reboot dialog is answered
ui_confirmReboot(i) ==
    /\ inv[i].pc = "confirmReboot"
    /\ \E reboot \in BOOLEAN :
         IF reboot
         THEN /\ inv' = [inv EXCEPT ![i].pc = "deviceControl",
                                    ![i].reboot = "yes",
                                    ![i].rebootRequested = TRUE]
              /\ loading' = loading
         ELSE /\ inv' = [inv EXCEPT ![i].pc = "end", ![i].reboot = "no"]
              /\ loading' = "null"
    /\ UNCHANGED <<tmp, cfg, opvars, racevars>>

\* lines 79-88: the reboot request is answered or fails
ui_deviceControl(i) ==
    /\ inv[i].pc = "deviceControl"
    /\ inv' = [inv EXCEPT ![i].pc = "end"]
    /\ loading' = "null"
    /\ UNCHANGED <<tmp, cfg, opvars, racevars>>

NextUi ==
    \E i \in Invocations :
      \/ ui_handleSwitch(i)
      \/ ui_confirm(i)
      \/ ui_setUsbMode(i)
      \/ ui_confirmReboot(i)
      \/ ui_deviceControl(i)

SpecUi == InitUi /\ [][NextUi]_vars

(***************************************************************************)
(* Properties.                                                             *)
(***************************************************************************)
\* the step just taken is a set operation (direct call or POST handler)
IsSet == op \in {"usb_mode_set", "handle_usb_mode_set"}

\* the step just taken is a set operation that reached the store with a
\* mode of the enum
ReachedStore == IsSet /\ mode \in USB_MODE_CDC_NCM .. USB_MODE_RNDIS

\* the file the set operation just taken was to write
Target == IF permanent # 0 THEN cfg ELSE tmp

C2_RoundTrip ==
    (op = "usb_mode_set" /\ ret = 0) =>
      LET name == usb_mode_name(usb_mode_get(tmp, cfg))
      IN  /\ mode = 1 => name = "cdc_ncm"
          /\ mode = 2 => name = "cdc_ecm"
          /\ mode = 3 => name = "rndis"

\* C3: after usb_mode_set(X, permanent = true) returned success the
\* Temporary Setting does not exist and usb_mode_get returns X.
C3_PermanentSetThenGet ==
    (op = "usb_mode_set" /\ permanent # 0 /\ ret = 0) =>
      (~tmp.exists /\ usb_mode_get(tmp, cfg) = mode)

\* C4: after usb_mode_set(Y, permanent = false) returned success
\* usb_mode_get returns Y.
C4_TemporarySetThenGet ==
    (op = "usb_mode_set" /\ permanent = 0 /\ ret = 0) =>
      usb_mode_get(tmp, cfg) = mode

\* C5: the Permanent Setting's existence and content change only in a
\* permanent set step that reached the store, and once it exists no step
\* removes it.
C5_PermanentFrame ==
    [][/\ cfg' # cfg => (ReachedStore' /\ permanent' # 0)
       /\ cfg.exists => cfg'.exists]_vars

\* a non-permanent set that succeeded beside an existing Permanent Setting
\* holding another mode
C5_Witness ==
    /\ IsSet
    /\ permanent = 0
    /\ ret = 0
    /\ fault = "none"
    /\ cfg = File(<<"2">>)
    /\ tmp = File(<<"3">>)

\* C6 as stated: the Temporary Setting exists if and only if the most
\* recent successful set was non-permanent.
C6_TmpIffLastSetTemporary == tmp.exists <=> lastOkSet = "temp"

\* C6 as amended: the Temporary Setting comes into existence only in a
\* non-permanent set and goes out of existence only in a permanent set; it
\* exists when the most recent successful set was non-permanent and it
\* does not exist when no set has succeeded or when the most recent
\* successful set was permanent and its unlink removed the file.
C6_TmpLifecycle ==
    /\ [](/\ lastOkSet = "temp" => tmp.exists
          /\ lastOkSet \in {"none", "perm"} => ~tmp.exists)
    /\ [][/\ (~tmp.exists /\ tmp'.exists) => (ReachedStore' /\ permanent' = 0)
          /\ (tmp.exists /\ ~tmp'.exists) => (ReachedStore' /\ permanent' # 0)
         ]_vars

\* a permanent set that removed the Temporary Setting a non-permanent set
\* had created
C6_Witness ==
    /\ IsSet
    /\ permanent # 0
    /\ ret = 0
    /\ lastOkSet = "perm"
    /\ ~tmp.exists
    /\ cfg = File(<<"1">>)

\* C7: a set whose fopen fails reports failure and leaves both settings as
\* they were; a permanent one does not delete the Temporary Setting.
C7_OpenFailureFrame ==
    [][(IsSet' /\ fault' = "open") =>
         /\ ret' = -1
         /\ op' = "handle_usb_mode_set" => resp'.Code = 1
         /\ tmp' = tmp
         /\ cfg' = cfg]_vars

\* a permanent set whose fopen failed while a Temporary Setting existed
C7_Witness ==
    /\ IsSet
    /\ permanent # 0
    /\ fault = "open"
    /\ ret = -1
    /\ tmp = File(<<"1">>)

\* the file the set operation of the step is to write, before the step
PriorTarget == IF permanent' # 0 THEN cfg ELSE tmp

\* C8: a write failure at any step of a set leaves the previously
\* persisted value of the setting in place: an existing setting's content
\* is replaced only by the new value, written in full.
C8_FailedWriteKeepsValue ==
    [][/\ (IsSet' /\ fault' \in {"open", "write", "write+unlink"}
            /\ PriorTarget.exists) => Target' = PriorTarget
       /\ (cfg.exists /\ cfg' # cfg) => cfg' = File(fprintf_d(mode'))
       /\ (tmp.exists /\ tmp' # tmp) =>
             \/ tmp' = File(fprintf_d(mode'))
             \/ (permanent' # 0 /\ tmp' = NoFile)]_vars

\* C9: the write handler answers Code=1 whenever the store write fails;
\* it answers Code=0 only if the targeted file holds the requested mode.
C9_SuccessMeansWritten ==
    op = "handle_usb_mode_set" =>
      /\ fault \in {"open", "write", "write+unlink"} => resp.Code = 1
      /\ resp.Code = 0 => Target = File(fprintf_d(mode))

\* the step is a POST whose mode is missing, empty or no wire name, or a
\* usb_mode_set call with an integer outside 1..3
RejectedRequest ==
    \/ /\ op' = "handle_usb_mode_set"
       /\ \/ ~body'.has_mode
          \/ body'.mode \notin {"cdc_ncm", "cdc_ecm", "rndis"}
    \/ /\ op' = "usb_mode_set"
       /\ mode' \notin 1..3

\* C10: such a request is rejected (Code=1, return value -1) and changes
\* neither setting: a GET before and after it answers the same.
C10_RejectedFrame ==
    [][RejectedRequest =>
         /\ op' = "handle_usb_mode_set" => resp'.Code = 1
         /\ op' = "usb_mode_set" => ret' = -1
         /\ tmp' = tmp
         /\ cfg' = cfg
         /\ GetResponse(tmp', cfg') = GetResponse(tmp, cfg)]_vars

\* a POST of a name in the wrong case, rejected while a Temporary Setting
\* shadows a Permanent one
C10_Witness ==
    /\ op = "handle_usb_mode_set"
    /\ body.has_mode
    /\ body.mode = "RNDIS"
    /\ resp.Code = 1
    /\ resp.Error = "mode_invalid"
    /\ tmp = File(<<"1">>)
    /\ cfg = File(<<"2">>)

\* the step just taken is a read (direct call or GET handler)
IsRead == op \in {"usb_mode_get", "handle_usb_mode_get"}

\* the value the read just taken reported
Reported == IF op = "usb_mode_get" THEN ret ELSE resp.Data.mode_value

\* C11: a successful POST of wire name n with permanent flag p (absent
\* counts as false) followed by a GET returns mode = n, mode_value = the
\* integer of n and is_temporary = (not p).
C11_PostThenGet ==
    (op = "handle_usb_mode_set" /\ resp.Code = 0) =>
      LET d == GetResponse(tmp, cfg).Data
      IN  /\ d.mode = body.mode
          /\ body.mode = "cdc_ncm" => d.mode_value = 1
          /\ body.mode = "cdc_ecm" => d.mode_value = 2
          /\ body.mode = "rndis" => d.mode_value = 3
          /\ d.is_temporary = (body.permanent # "true")

\* C12: when neither file exists usb_mode_get reports -1 and the read
\* handler answers mode "unknown", a negative mode_value and
\* is_temporary = false; a read creates neither file.
C12_EmptyStoreRead ==
    /\ []((IsRead /\ ~tmp.exists /\ ~cfg.exists) =>
            /\ op = "usb_mode_get" => ret = -1
            /\ op = "handle_usb_mode_get" =>
                 /\ resp.Code = 0
                 /\ resp.Data.mode = "unknown"
                 /\ resp.Data.mode_value < 0
                 /\ resp.Data.is_temporary = FALSE)
    /\ [][IsRead' => (tmp' = tmp /\ cfg' = cfg)]_vars

\* a GET answered on a store with neither file
C12_Witness ==
    /\ op = "handle_usb_mode_get"
    /\ ~tmp.exists
    /\ ~cfg.exists
    /\ resp.Data.mode = "unknown"
    /\ resp.Data.mode_value = -1

\* a file holds a mode of the enum
HoldsMode(f) ==
    f.exists /\ read_mode_from_file(f) \in USB_MODE_CDC_NCM .. USB_MODE_RNDIS

\* C13: whenever no file holds a valid mode a read reports the -1
\* sentinel (the handler a negative mode_value), and usb_mode_get never
\* returns anything but a mode value or -1.
C13_UnsetSentinel ==
    IsRead =>
      /\ (~HoldsMode(tmp) /\ ~HoldsMode(cfg)) => Reported = -1
      /\ Reported \in {USB_MODE_CDC_NCM, USB_MODE_CDC_ECM, USB_MODE_RNDIS, -1}

\* C14: the read handler's is_temporary is true exactly when the
\* Temporary file exists, whatever it holds and wherever the reported mode
\* comes from.
C14_IsTemporaryIsPresence ==
    op = "handle_usb_mode_get" =>
      /\ resp.Data.is_temporary = tmp.exists
      /\ (tmp.exists /\ read_mode_from_file(tmp) <= 0) =>
           /\ resp.Data.is_temporary = TRUE
           /\ resp.Data.mode_value = read_mode_from_file(cfg)

\* a GET answered from the Permanent Setting beside an unparsable
\* Temporary file
C14_Witness ==
    /\ op = "handle_usb_mode_get"
    /\ tmp = File(<<"x">>)
    /\ cfg = File(<<"2">>)
    /\ resp.Data.is_temporary = TRUE
    /\ resp.Data.mode = "cdc_ecm"

\* C17: from an empty store, under GET and POST requests without write
\* failures, each file that exists holds one of 1, 2, 3, and once a POST
\* has succeeded every GET answers one of the three wire names with
\* mode_value in 1..3.
C17_StoredValuesValid ==
    /\ tmp.exists => tmp.data \in {<<"1">>, <<"2">>, <<"3">>}
    /\ cfg.exists => cfg.data \in {<<"1">>, <<"2">>, <<"3">>}
    /\ (lastOkSet # "none" /\ op = "handle_usb_mode_get") =>
         /\ resp.Data.mode \in {"cdc_ncm", "cdc_ecm", "rndis"}
         /\ resp.Data.mode_value \in 1..3
         /\ usb_mode_from_name(resp.Data.mode) = resp.Data.mode_value

\* a GET answered after a permanent POST whose unlink left the Temporary
\* Setting of an earlier POST in place
C17_Witness ==
    /\ op = "handle_usb_mode_get"
    /\ lastOkSet = "perm_unlink_failed"
    /\ tmp = File(<<"3">>)
    /\ cfg = File(<<"1">>)
    /\ resp.Data.mode = "rndis"

\* the files after usb_mode_set of setter p and then of setter q, each run
\* alone on the files the race started from
SerialFinal(p, q) ==
    LET a == usb_mode_set(tmp0, cfg0, setter[p].mode, setter[p].permanent, IoOk)
        b == usb_mode_set(a.tmp, a.cfg, setter[q].mode, setter[q].permanent, IoOk)
    IN  <<b.tmp, b.cfg>>

\* both racing calls were given a mode of the enum and have returned
BothSetsDone ==
    \A p \in Procs :
      /\ setter[p].pc = "done"
      /\ setter[p].mode \in USB_MODE_CDC_NCM .. USB_MODE_RNDIS

\* C15: when two set operations have run with their filesystem steps
\* interleaved, both report success and the two files are as one of the
\* two serial orders leaves them.
C15_LastWriterWins ==
    BothSetsDone =>
      /\ \A p \in Procs : setter[p].ret = 0
      /\ <<tmp, cfg>> \in {SerialFinal(1, 2), SerialFinal(2, 1)}

\* a non-permanent set of 1 and a permanent set of 2 that raced on a store
\* whose Temporary file was unlinked while the other call had it open
C15_Witness ==
    /\ BothSetsDone
    /\ setter[1].permanent = 0
    /\ setter[1].mode = 1
    /\ setter[2].permanent # 0
    /\ setter[2].mode = 2
    /\ orphan = File(<<"1">>)
    /\ ~tmp.exists
    /\ cfg = File(<<"2">>)

\* the files after the racing usb_mode_set, run alone
AfterSet ==
    usb_mode_set(tmp0, cfg0, setter[1].mode, setter[1].permanent, IoOk)

\* the racing usb_mode_get has returned
GetDone == reader.pc = "done"

DuringSet ==
    IF AfterSet.ret # 0 THEN [tmp |-> tmp0, cfg |-> cfg0]
    ELSE IF setter[1].permanent # 0 THEN [tmp |-> tmp0, cfg |-> File(<<>>)]
    ELSE [tmp |-> File(<<>>), cfg |-> cfg0]

C18_RebootOnlyAfterConfirmations ==
    /\ [](\A i \in DOMAIN inv :
            inv[i].rebootRequested =>
              /\ inv[i].confirmed = "yes"
              /\ inv[i].res = "Code0"
              /\ inv[i].reboot = "yes")
    /\ [][\A i \in DOMAIN inv :
            /\ (inv[i].pc # "deviceControl" /\ inv'[i].pc = "deviceControl") =>
                 /\ inv[i].pc = "confirmReboot"
                 /\ inv[i].confirmed = "yes"
                 /\ inv[i].res = "Code0"
            /\ (inv[i].pc # "confirmReboot" /\ inv'[i].pc = "confirmReboot") =>
                 /\ inv[i].pc = "setUsbMode"
                 /\ inv[i].confirmed = "yes"
            /\ (inv[i].pc # "setUsbMode" /\ inv'[i].pc = "setUsbMode") =>
                 inv[i].pc = "confirm"]_vars

\* an invocation whose reboot request is out, and one whose set request
\* answered another Code and ended
C18_Witness ==
    /\ DOMAIN inv # {}
    /\ inv[1].pc = "deviceControl"
    /\ inv[1].rebootRequested
    /\ inv[2].pc = "end"
    /\ inv[2].res = "Code1"
    /\ ~inv[2].rebootRequested

\* the invocations whose set request is outstanding
Outstanding == {i \in DOMAIN inv : inv[i].pc = "setUsbMode"}

\* C19: at most one set request is outstanding at a time (an invocation
\* that finds loading non-null issues no request), and every invocation
\* that set loading resets it to null when it ends.
C19_OneRequestAtATime ==
    /\ [](Cardinality(Outstanding) <= 1)
    /\ [][\A i \in DOMAIN inv :
            /\ (inv[i].pc \in {"idle", "end"} /\ loading # "null") =>
                 inv'[i].pc \in {"idle", "end"}
            /\ (inv[i].setLoading /\ inv[i].pc # "end" /\ inv'[i].pc = "end") =>
                 loading' = "null"]_vars
====
